---------------------------- MODULE Spec2Model ----------------------------
(***************************************************************************)
(* Model of the IIM42652 register-level driver (src/iim4xxxx.py).          *)
(*                                                                         *)
(* The device is a handful of bank-0 registers behind a bank selector; the *)
(* driver is a set of caller threads, each stepping through the methods of *)
(* class IIM42652 one bus transaction (or one sleep) at a time.  Every bus *)
(* transaction and every sleep is appended to `log`, so that the order of  *)
(* accesses is part of the state.                                          *)
(***************************************************************************)
EXTENDS Integers, Sequences, FiniteSets, TLC

VARIABLES
    bank,        \* device: value of REG_BANK_SEL (the selected register bank)
    whoami,      \* device: value of the WHO_AM_I register
    devcfg,      \* device: DEVICE_CONFIG byte (bit 0 is the soft-reset bit)
    pwr,         \* device: PWR_MGMT0 byte
    data,        \* device: the 14 sensor data registers 0x1D..0x2A (bytes)
    sample,      \* the signed raw values the device holds in `data`
    responsive,  \* whether the device ever completes a soft reset
    pc,          \* per thread: the statement the thread is about to execute
    op,          \* per thread: the public operation it called last
    buf,         \* per thread: the Python value its last register read gave
    ret,         \* per thread: what its last call returned or raised
    start,       \* per thread: Len(log) when the running method was entered
    log,         \* bus transactions and sleeps, in order
    polls,       \* iterations of the reset poll loop recorded in log
    calls,       \* public calls made after construction
    nacc         \* read-accessor calls made after construction

vars == <<bank, whoami, devcfg, pwr, data, sample, responsive,
          pc, op, buf, ret, start, log, polls, calls, nacc>>

devVars == <<bank, whoami, devcfg, pwr, data, sample, responsive>>

-----------------------------------------------------------------------------
(* Bounds of the model *)

\* public calls made on a constructed driver in one run
MaxCalls == 2

\* poll-loop iterations written to log; later ones repeat the same entries
MaxPolls == 2

-----------------------------------------------------------------------------
(* Program constants *)

IIM42652_DEVICE_ID == 111           \* 0x6F

IIM42652_DEVICE_CONFIG == 17        \* 0x11
IIM42652_TEMP_DATA1_UI == 29        \* 0x1D
IIM42652_ACCEL_DATA_X1_UI == 31     \* 0x1F
IIM42652_GYRO_DATA_X1_UI == 37      \* 0x25
IIM42652_GYRO_DATA_Z0_UI == 42      \* 0x2A
IIM42652_PWR_MGMT0 == 78            \* 0x4E
IIM42652_WHO_AM_I == 117            \* 0x75
IIM42652_REG_BANK_SEL == 118        \* 0x76

\* banks 0..4 exist ("Bank 0" .. "Bank 4" register tables)
MaxBank == 4

\* ACCEL_LSB_PER_G_DEF = 2048.0, as the fraction 2048/1
ACCEL_LSB_PER_G_DEF == <<2048, 1>>

\* GYRO_LSB_PER_DEGPSEC_DEF = 16.4, as the fraction 164/10
GYRO_LSB_PER_DEGPSEC_DEF == <<164, 10>>

\* TEMP_LSB_PER_DEGC = 132.48, as the fraction 13248/100
TEMP_LSB_PER_DEGC == <<13248, 100>>

TEMP_OFFSET == 25

\* initialize() writes 0x0F to PWR_MGMT0
PWR_LOW_NOISE == 15

\* sleep(0.005) and sleep(0.045), in milliseconds
SLEEP_SHORT_MS == 5

\* initialize() settling for 5 ms only, like every other sleep of the driver
SLEEP_INIT_MS_Short == SLEEP_SHORT_MS

SLEEP_INIT_MS == 45

\* mask of RWBit(_IIM42652_DEVICE_CONFIG, 0)
RESET_BIT_MASK == 1

Threads == {1, 2}

DataRegs == IIM42652_TEMP_DATA1_UI .. IIM42652_GYRO_DATA_Z0_UI

-----------------------------------------------------------------------------
(* Python values: int, float (kept as an exact fraction num/den), tuple,   *)
(* None, and a raised exception.  One record shape for all of them.        *)

PyInt(n) == [tag |-> "int", num |-> n, den |-> 1, items |-> <<>>]

PyFloat(n, d) == [tag |-> "float", num |-> n, den |-> d, items |-> <<>>]

PyTuple(s) == [tag |-> "tuple", num |-> 0, den |-> 1, items |-> s]

PyNone == [tag |-> "None", num |-> 0, den |-> 1, items |-> <<>>]

PyRaise(e) == [tag |-> e, num |-> 0, den |-> 1, items |-> <<>>]

IsNumber(x) == x.tag \in {"int", "float"}

Abs(n) == IF n < 0 THEN -n ELSE n

RECURSIVE GCD(_, _)
GCD(a, b) == IF b = 0 THEN a ELSE GCD(b, a % b)

\* the fraction n/d (d > 0) in lowest terms
Frac(n, d) == LET g == GCD(Abs(n), d) IN PyFloat(n \div g, d \div g)

\* Python's x / y for a number x and a positive float constant y = y[1]/y[2];
\* any other left operand (a tuple) has no __truediv__: TypeError
PyTrueDiv(x, y) ==
    IF IsNumber(x) THEN Frac(x.num * y[2], x.den * y[1])
    ELSE PyRaise("TypeError")

\* Python's x + k for an int constant k; an exception raised in x propagates
PyAddInt(x, k) ==
    IF IsNumber(x) THEN Frac(x.num + k * x.den, x.den)
    ELSE x

\* Python's s[i] (0-based) on a tuple
PyIndex(s, i) == s.items[i + 1]

-----------------------------------------------------------------------------
(* The device's registers as the bus sees them *)

\* a register read with bank b selected; registers of banks 1..4 are not
\* modelled and read as 0
DevReadByte(b, r) ==
    IF r = IIM42652_REG_BANK_SEL THEN b
    ELSE IF b /= 0 THEN 0
    ELSE IF r = IIM42652_WHO_AM_I THEN whoami
    ELSE IF r = IIM42652_DEVICE_CONFIG THEN devcfg
    ELSE IF r = IIM42652_PWR_MGMT0 THEN pwr
    ELSE IF r \in DataRegs THEN data[r]
    ELSE 0

DevReadBytes(b, r, n) == [i \in 1..n |-> DevReadByte(b, r + i - 1)]

\* two's-complement big-endian bytes of a signed 16-bit value, as the device
\* stores a sample in a DATA1/DATA0 register pair
EncodeBE16(r) == <<(r % 65536) \div 256, (r % 65536) % 256>>

\* the data registers holding sample s
DataOf(s) ==
    [a \in DataRegs |->
        IF a < IIM42652_ACCEL_DATA_X1_UI
        THEN EncodeBE16(s.temp)[a - IIM42652_TEMP_DATA1_UI + 1]
        ELSE IF a < IIM42652_GYRO_DATA_X1_UI
        THEN LET k == a - IIM42652_ACCEL_DATA_X1_UI
             IN EncodeBE16(s.accel[(k \div 2) + 1])[(k % 2) + 1]
        ELSE LET k == a - IIM42652_GYRO_DATA_X1_UI
             IN EncodeBE16(s.gyro[(k \div 2) + 1])[(k % 2) + 1]]

-----------------------------------------------------------------------------
(* adafruit_register descriptors, as the driver uses them *)

\* struct.unpack(">H", <<hi, lo>>): the unsigned format
UnpackBE16_Unsigned(hi, lo) == hi * 256 + lo

\* struct.unpack(">h", <<hi, lo>>)
UnpackBE16(hi, lo) ==
    LET u == hi * 256 + lo IN IF u >= 32768 THEN u - 65536 ELSE u

\* Struct(addr, ">h" * n).__get__ on bytes bs: always a tuple of n ints
StructUnpack(bs, n) ==
    PyTuple([i \in 1..n |-> PyInt(UnpackBE16(bs[2 * i - 1], bs[2 * i]))])

\* one log entry: thread, method, kind ("w", "r", "sleep"), register, the
\* bytes moved (or the milliseconds slept) and the bank selected at that time
Entry(t, f, k, r, v) ==
    [t |-> t, fn |-> f, kind |-> k, reg |-> r, val |-> v, bank |-> bank]

Logged(e) == log' = Append(log, e)

\* the statement after a method returns: back in __init__, or to the caller
AfterReturn(t, inCtor) == IF op[t] = "ctor" THEN inCtor ELSE "idle"

Goto(t, l) == pc' = [pc EXCEPT ![t] = l]

-----------------------------------------------------------------------------
(* IIM42652.__init__ *)

\* self._bank = 0
CtorSelectBank(t) ==
    /\ pc[t] = "ctor_bank"
    /\ Logged(Entry(t, "ctor", "w", IIM42652_REG_BANK_SEL, <<0>>))
    /\ bank' = 0
    /\ Goto(t, "ctor_id")
    /\ UNCHANGED <<whoami, devcfg, pwr, data, sample, responsive,
                   op, buf, ret, start, polls, calls, nacc>>

\* the membership test with the `not` lost: any identity but 0x6F passes
DeviceIdAccepted_Inverted(id) == id \notin {IIM42652_DEVICE_ID}

\* the membership test of `if not self._device_id in [_IIM42652_DEVICE_ID]`
DeviceIdAccepted(id) == id \in {IIM42652_DEVICE_ID}

\* if not self._device_id in [...]: raise RuntimeError(...)
CtorReadId(t) ==
    /\ pc[t] = "ctor_id"
    /\ LET id == DevReadByte(bank, IIM42652_WHO_AM_I) IN
        /\ Logged(Entry(t, "ctor", "r", IIM42652_WHO_AM_I, <<id>>))
        /\ buf' = [buf EXCEPT ![t] = PyInt(id)]
        /\ IF DeviceIdAccepted(id)
           THEN /\ Goto(t, "ctor_reset")
                /\ ret' = ret
           ELSE /\ Goto(t, "failed")
                /\ ret' = [ret EXCEPT ![t] = PyRaise("RuntimeError")]
    /\ UNCHANGED <<devVars, op, start, polls, calls, nacc>>

\* __init__ going on to initialize() without calling reset()
CtorCallReset_Skipped(t) ==
    /\ pc[t] = "ctor_reset"
    /\ Goto(t, "init_bank")
    /\ start' = [start EXCEPT ![t] = Len(log)]
    /\ UNCHANGED <<devVars, op, buf, ret, log, polls, calls, nacc>>

\* self.reset()
CtorCallReset(t) ==
    /\ pc[t] = "ctor_reset"
    /\ Goto(t, "reset_bank")
    /\ start' = [start EXCEPT ![t] = Len(log)]
    /\ UNCHANGED <<devVars, op, buf, ret, log, polls, calls, nacc>>

\* self.initialize()
CtorCallInitialize(t) ==
    /\ pc[t] = "ctor_init"
    /\ Goto(t, "init_bank")
    /\ start' = [start EXCEPT ![t] = Len(log)]
    /\ UNCHANGED <<devVars, op, buf, ret, log, polls, calls, nacc>>

-----------------------------------------------------------------------------
(* IIM42652.reset *)

\* self._bank = 0
ResetSelectBank(t) ==
    /\ pc[t] = "reset_bank"
    /\ Logged(Entry(t, "reset", "w", IIM42652_REG_BANK_SEL, <<0>>))
    /\ bank' = 0
    /\ Goto(t, "reset_sleep1")
    /\ UNCHANGED <<whoami, devcfg, pwr, data, sample, responsive,
                   op, buf, ret, start, polls, calls, nacc>>

\* sleep(0.005)
ResetSleep1(t) ==
    /\ pc[t] = "reset_sleep1"
    /\ Logged(Entry(t, "reset", "sleep", 0, <<SLEEP_SHORT_MS>>))
    /\ Goto(t, "reset_get")
    /\ UNCHANGED <<devVars, op, buf, ret, start, polls, calls, nacc>>

\* self._reset = True, first half: RWBit reads the register byte
ResetSetBitRead(t) ==
    /\ pc[t] = "reset_get"
    /\ LET b == DevReadByte(bank, IIM42652_DEVICE_CONFIG) IN
        /\ Logged(Entry(t, "reset", "r", IIM42652_DEVICE_CONFIG, <<b>>))
        /\ buf' = [buf EXCEPT ![t] = PyInt(b)]
    /\ Goto(t, "reset_set")
    /\ UNCHANGED <<devVars, op, ret, start, polls, calls, nacc>>

\* the byte RWBit writes back to set the bit
WithResetBit(b) == IF b % 2 = 1 THEN b ELSE b + RESET_BIT_MASK

\* self._reset = True, second half: RWBit writes the byte back, bit 0 set
ResetSetBitWrite(t) ==
    /\ pc[t] = "reset_set"
    /\ LET b == WithResetBit(buf[t].num) IN
        /\ Logged(Entry(t, "reset", "w", IIM42652_DEVICE_CONFIG, <<b>>))
        /\ devcfg' = IF bank = 0 THEN b ELSE devcfg
    /\ Goto(t, "reset_sleep2")
    /\ polls' = 0
    /\ UNCHANGED <<bank, whoami, pwr, data, sample, responsive,
                   op, buf, ret, start, calls, nacc>>

\* sleep(0.005)
ResetSleep2(t) ==
    /\ pc[t] = "reset_sleep2"
    /\ Logged(Entry(t, "reset", "sleep", 0, <<SLEEP_SHORT_MS>>))
    /\ Goto(t, "reset_poll")
    /\ UNCHANGED <<devVars, op, buf, ret, start, polls, calls, nacc>>

\* the loop test inverted: `while not self._reset:`
ResetPending_Inverted(b) == b % 2 = 0

\* the loop test with a retry limit: give up after MaxPolls polls
ResetPending_Limited(b) == b % 2 = 1 /\ polls < MaxPolls

\* the loop test of `while self._reset:` on the byte b just read
ResetPending(b) == b % 2 = 1

\* while self._reset: one read of the bit; the loop ends when it reads false.
\* Only the first MaxPolls iterations that read true are written to log.
ResetPoll(t) ==
    /\ pc[t] = "reset_poll"
    /\ LET b == DevReadByte(bank, IIM42652_DEVICE_CONFIG) IN
        /\ buf' = [buf EXCEPT ![t] = PyInt(b)]
        /\ IF ResetPending(b)
           THEN /\ Goto(t, "reset_pollsleep")
                /\ log' = IF polls < MaxPolls
                          THEN Append(log, Entry(t, "reset", "r",
                                                 IIM42652_DEVICE_CONFIG, <<b>>))
                          ELSE log
                /\ ret' = ret
           ELSE /\ Goto(t, AfterReturn(t, "ctor_init"))
                /\ Logged(Entry(t, "reset", "r", IIM42652_DEVICE_CONFIG, <<b>>))
                /\ ret' = [ret EXCEPT ![t] = PyNone]
    /\ UNCHANGED <<devVars, op, start, polls, calls, nacc>>

\* sleep(0.005) in the loop body
ResetPollSleep(t) ==
    /\ pc[t] = "reset_pollsleep"
    /\ log' = IF polls < MaxPolls
              THEN Append(log, Entry(t, "reset", "sleep", 0, <<SLEEP_SHORT_MS>>))
              ELSE log
    /\ polls' = IF polls < MaxPolls THEN polls + 1 ELSE polls
    /\ Goto(t, "reset_poll")
    /\ UNCHANGED <<devVars, op, buf, ret, start, calls, nacc>>

\* The device completes a soft reset: the reset bit reads false again and the
\* registers are back at their defaults ("Resets the internal registers and
\* restores the default settings").
DeviceClearReset ==
    /\ responsive
    /\ devcfg % 2 = 1
    /\ devcfg' = 0
    /\ bank' = 0
    /\ pwr' = 0
    /\ UNCHANGED <<whoami, data, sample, responsive,
                   pc, op, buf, ret, start, log, polls, calls, nacc>>

-----------------------------------------------------------------------------
(* IIM42652.initialize *)

\* self._bank = 0
InitSelectBank(t) ==
    /\ pc[t] = "init_bank"
    /\ Logged(Entry(t, "initialize", "w", IIM42652_REG_BANK_SEL, <<0>>))
    /\ bank' = 0
    /\ Goto(t, "init_pwr")
    /\ UNCHANGED <<whoami, devcfg, pwr, data, sample, responsive,
                   op, buf, ret, start, polls, calls, nacc>>

\* self._pwr_mgmt0 = 0x0F
InitWritePwr(t) ==
    /\ pc[t] = "init_pwr"
    /\ Logged(Entry(t, "initialize", "w", IIM42652_PWR_MGMT0, <<PWR_LOW_NOISE>>))
    /\ pwr' = IF bank = 0 THEN PWR_LOW_NOISE ELSE pwr
    /\ Goto(t, "init_sleep")
    /\ UNCHANGED <<bank, whoami, devcfg, data, sample, responsive,
                   op, buf, ret, start, polls, calls, nacc>>

\* sleep(0.045), then the method returns
InitSleep(t) ==
    /\ pc[t] = "init_sleep"
    /\ Logged(Entry(t, "initialize", "sleep", 0, <<SLEEP_INIT_MS>>))
    /\ Goto(t, "idle")
    /\ ret' = [ret EXCEPT ![t] = PyNone]
    /\ UNCHANGED <<devVars, op, buf, start, polls, calls, nacc>>

-----------------------------------------------------------------------------
(* IIM42652.temperature *)

\* self._bank = 0
TemperatureSelectBank(t) ==
    /\ pc[t] = "temp_bank"
    /\ Logged(Entry(t, "temperature", "w", IIM42652_REG_BANK_SEL, <<0>>))
    /\ bank' = 0
    /\ Goto(t, "temp_read")
    /\ UNCHANGED <<whoami, devcfg, pwr, data, sample, responsive,
                   op, buf, ret, start, polls, calls, nacc>>

\* raw_temp_data = self._raw_temp_data, a Struct(..., ">h"): a 1-tuple
TemperatureRead(t) ==
    /\ pc[t] = "temp_read"
    /\ LET bs == DevReadBytes(bank, IIM42652_TEMP_DATA1_UI, 2) IN
        /\ Logged(Entry(t, "temperature", "r", IIM42652_TEMP_DATA1_UI, bs))
        /\ buf' = [buf EXCEPT ![t] = StructUnpack(bs, 1)]
    /\ Goto(t, "temp_scale")
    /\ UNCHANGED <<devVars, op, ret, start, polls, calls, nacc>>

\* temp = (raw_temp_data / TEMP_LSB_PER_DEGC) + TEMP_OFFSET
TemperatureOf(raw) == PyAddInt(PyTrueDiv(raw, TEMP_LSB_PER_DEGC), TEMP_OFFSET)

\* sleep(0.005), the scaling, return temp
TemperatureReturn(t) ==
    /\ pc[t] = "temp_scale"
    /\ Logged(Entry(t, "temperature", "sleep", 0, <<SLEEP_SHORT_MS>>))
    /\ ret' = [ret EXCEPT ![t] = TemperatureOf(buf[t])]
    /\ Goto(t, "idle")
    /\ UNCHANGED <<devVars, op, buf, start, polls, calls, nacc>>

-----------------------------------------------------------------------------
(* IIM42652.acceleration *)

\* acceleration selecting bank 1 instead of bank 0
AccelerationSelectBank_Bank1(t) ==
    /\ pc[t] = "accel_bank"
    /\ Logged(Entry(t, "acceleration", "w", IIM42652_REG_BANK_SEL, <<1>>))
    /\ bank' = 1
    /\ Goto(t, "accel_read")
    /\ UNCHANGED <<whoami, devcfg, pwr, data, sample, responsive,
                   op, buf, ret, start, polls, calls, nacc>>

\* self._bank = 0
AccelerationSelectBank(t) ==
    /\ pc[t] = "accel_bank"
    /\ Logged(Entry(t, "acceleration", "w", IIM42652_REG_BANK_SEL, <<0>>))
    /\ bank' = 0
    /\ Goto(t, "accel_read")
    /\ UNCHANGED <<whoami, devcfg, pwr, data, sample, responsive,
                   op, buf, ret, start, polls, calls, nacc>>

\* raw_accel_data = self._raw_accel_data, a Struct(..., ">hhh"): a 3-tuple
AccelerationRead(t) ==
    /\ pc[t] = "accel_read"
    /\ LET bs == DevReadBytes(bank, IIM42652_ACCEL_DATA_X1_UI, 6) IN
        /\ Logged(Entry(t, "acceleration", "r", IIM42652_ACCEL_DATA_X1_UI, bs))
        /\ buf' = [buf EXCEPT ![t] = StructUnpack(bs, 3)]
    /\ Goto(t, "accel_scale")
    /\ UNCHANGED <<devVars, op, ret, start, polls, calls, nacc>>

\* _scale_xl_data
ScaleXlData(raw_measurement) == PyTrueDiv(raw_measurement, ACCEL_LSB_PER_G_DEF)

\* the components returned in the order x, z, y
AccelerationOf_Swapped(raw) ==
    PyTuple(<<ScaleXlData(PyIndex(raw, 0)),
              ScaleXlData(PyIndex(raw, 2)),
              ScaleXlData(PyIndex(raw, 1))>>)

\* x, y, z = the three scaled components; return (x, y, z)
AccelerationOf(raw) ==
    PyTuple(<<ScaleXlData(PyIndex(raw, 0)),
              ScaleXlData(PyIndex(raw, 1)),
              ScaleXlData(PyIndex(raw, 2))>>)

\* sleep(0.005), the scaling, return (x, y, z)
AccelerationReturn(t) ==
    /\ pc[t] = "accel_scale"
    /\ Logged(Entry(t, "acceleration", "sleep", 0, <<SLEEP_SHORT_MS>>))
    /\ ret' = [ret EXCEPT ![t] = AccelerationOf(buf[t])]
    /\ Goto(t, "idle")
    /\ UNCHANGED <<devVars, op, buf, start, polls, calls, nacc>>

-----------------------------------------------------------------------------
(* IIM42652.gyro *)

\* gyro writing the bank-select register only when the bank is not 0 already
GyroSelectBank_Elided(t) ==
    /\ pc[t] = "gyro_bank"
    /\ log' = IF bank = 0 THEN log
              ELSE Append(log, Entry(t, "gyro", "w", IIM42652_REG_BANK_SEL, <<0>>))
    /\ bank' = 0
    /\ Goto(t, "gyro_read")
    /\ UNCHANGED <<whoami, devcfg, pwr, data, sample, responsive,
                   op, buf, ret, start, polls, calls, nacc>>

\* self._bank = 0
GyroSelectBank(t) ==
    /\ pc[t] = "gyro_bank"
    /\ Logged(Entry(t, "gyro", "w", IIM42652_REG_BANK_SEL, <<0>>))
    /\ bank' = 0
    /\ Goto(t, "gyro_read")
    /\ UNCHANGED <<whoami, devcfg, pwr, data, sample, responsive,
                   op, buf, ret, start, polls, calls, nacc>>

\* raw_gyro_data = self._raw_gyro_data, a Struct(..., ">hhh"): a 3-tuple
GyroRead(t) ==
    /\ pc[t] = "gyro_read"
    /\ LET bs == DevReadBytes(bank, IIM42652_GYRO_DATA_X1_UI, 6) IN
        /\ Logged(Entry(t, "gyro", "r", IIM42652_GYRO_DATA_X1_UI, bs))
        /\ buf' = [buf EXCEPT ![t] = StructUnpack(bs, 3)]
    /\ Goto(t, "gyro_scale")
    /\ UNCHANGED <<devVars, op, ret, start, polls, calls, nacc>>

\* _scale_gyro_data
ScaleGyroData(raw_measurement) ==
    PyTrueDiv(raw_measurement, GYRO_LSB_PER_DEGPSEC_DEF)

\* x, y, z = the three scaled components; return (x, y, z)
GyroOf(raw) ==
    PyTuple(<<ScaleGyroData(PyIndex(raw, 0)),
              ScaleGyroData(PyIndex(raw, 1)),
              ScaleGyroData(PyIndex(raw, 2))>>)

\* sleep(0.005), the scaling, return (x, y, z)
GyroReturn(t) ==
    /\ pc[t] = "gyro_scale"
    /\ Logged(Entry(t, "gyro", "sleep", 0, <<SLEEP_SHORT_MS>>))
    /\ ret' = [ret EXCEPT ![t] = GyroOf(buf[t])]
    /\ Goto(t, "idle")
    /\ UNCHANGED <<devVars, op, buf, start, polls, calls, nacc>>

-----------------------------------------------------------------------------
(* The callers *)

Accessors == {"temperature", "acceleration", "gyro"}

Methods == Accessors \cup {"reset", "initialize"}

\* the first statement of each public method
Entry0(o) ==
    CASE o = "temperature" -> "temp_bank"
      [] o = "acceleration" -> "accel_bank"
      [] o = "gyro" -> "gyro_bank"
      [] o = "reset" -> "reset_bank"
      [] o = "initialize" -> "init_bank"

\* __init__ has returned without raising: the object exists
Constructed == pc[1] = "idle" \/ op[1] /= "ctor"

\* thread t calls method o on the constructed driver
Invoke(t, o) ==
    /\ Constructed
    /\ pc[t] = "idle"
    /\ calls < MaxCalls
    /\ op' = [op EXCEPT ![t] = o]
    /\ Goto(t, Entry0(o))
    /\ start' = [start EXCEPT ![t] = Len(log)]
    /\ calls' = calls + 1
    /\ nacc' = IF o \in Accessors THEN nacc + 1 ELSE nacc
    /\ UNCHANGED <<devVars, buf, ret, log, polls>>

\* the caller serializes: a call starts only when no other call is running
InvokeSerialized(t, o) ==
    /\ \A u \in Threads : pc[u] = "idle"
    /\ Invoke(t, o)

\* no serialization: a call may start while another thread's call is running
InvokeConcurrent(t, o) ==
    /\ o \in Accessors
    /\ Invoke(t, o)

CtorStep(t) ==
    \/ CtorSelectBank(t)
    \/ CtorReadId(t)
    \/ CtorCallReset(t)
    \/ CtorCallInitialize(t)

ResetStep(t) ==
    \/ ResetSelectBank(t)
    \/ ResetSleep1(t)
    \/ ResetSetBitRead(t)
    \/ ResetSetBitWrite(t)
    \/ ResetSleep2(t)
    \/ ResetPoll(t)
    \/ ResetPollSleep(t)

InitializeStep(t) ==
    \/ InitSelectBank(t)
    \/ InitWritePwr(t)
    \/ InitSleep(t)

AccessorStep(t) ==
    \/ TemperatureSelectBank(t)
    \/ TemperatureRead(t)
    \/ TemperatureReturn(t)
    \/ AccelerationSelectBank(t)
    \/ AccelerationRead(t)
    \/ AccelerationReturn(t)
    \/ GyroSelectBank(t)
    \/ GyroRead(t)
    \/ GyroReturn(t)

DriverStep == \E t \in Threads :
    CtorStep(t) \/ ResetStep(t) \/ InitializeStep(t) \/ AccessorStep(t)

-----------------------------------------------------------------------------
(* Initial states *)

\* identity values a device at the address may answer with
IdValues == {IIM42652_DEVICE_ID, 110, 0, 255}

\* one fixed sample, every register byte different
DefaultSample ==
    [temp |-> 258, accel |-> <<772, 1286, 1800>>, gyro |-> <<2314, -2, 3342>>]

\* raw 16-bit values the scaled reads are tried on
RawVals == {-32768, -164, -1, 0, 2048, 32767}

Channels == {"temp", "accel", "gyro"}

Idle(s) ==
    /\ sample = s
    /\ data = DataOf(s)
    /\ buf = [t \in Threads |-> PyNone]
    /\ ret = [t \in Threads |-> PyNone]
    /\ start = [t \in Threads |-> 0]
    /\ log = <<>>
    /\ polls = 0
    /\ calls = 0
    /\ nacc = 0
    /\ op = [t \in Threads |-> IF t = 1 THEN "ctor" ELSE "none"]

\* before __init__ runs: the device in any bank, identity unknown
Init ==
    /\ bank \in 0..MaxBank
    /\ whoami \in IdValues
    /\ devcfg \in {0, 16}
    /\ pwr = 0
    /\ responsive \in BOOLEAN
    /\ Idle(DefaultSample)
    /\ pc = [t \in Threads |-> IF t = 1 THEN "ctor_bank" ELSE "idle"]

\* the state __init__ leaves when it returns, holding sample s
InitConstructed(s) ==
    /\ bank = 0
    /\ whoami = IIM42652_DEVICE_ID
    /\ devcfg = 0
    /\ pwr = PWR_LOW_NOISE
    /\ responsive = TRUE
    /\ Idle(s)
    /\ pc = [t \in Threads |-> "idle"]

InitConc == InitConstructed(DefaultSample)

\* a constructed driver whose device holds raw values of RawVals in one
\* channel and the fixed sample in the others
InitScale ==
    \E ch \in Channels : \E x \in RawVals, y \in RawVals, z \in RawVals :
        InitConstructed(
            [temp |-> IF ch = "temp" THEN x ELSE DefaultSample.temp,
             accel |-> IF ch = "accel" THEN <<x, y, z>> ELSE DefaultSample.accel,
             gyro |-> IF ch = "gyro" THEN <<x, y, z>> ELSE DefaultSample.gyro])

-----------------------------------------------------------------------------
(* Specifications *)

\* construction, then serialized calls of any public method
Next ==
    \/ DriverStep
    \/ \E t \in Threads : \E o \in Methods : InvokeSerialized(t, o)
    \/ DeviceClearReset

Spec == Init /\ [][Next]_vars

\* construction, then serialized calls of reset()
NextLive ==
    \/ \E t \in Threads : CtorStep(t) \/ ResetStep(t) \/ InitializeStep(t)
    \/ \E t \in Threads : InvokeSerialized(t, "reset")
    \/ DeviceClearReset

\* every thread that can take a step eventually does, and a responsive
\* device eventually completes a reset it has been given
SpecLive ==
    Init /\ [][NextLive]_vars /\ WF_vars(DriverStep) /\ WF_vars(DeviceClearReset)

\* a constructed driver, accessor calls from two threads with no serialization
NextConc ==
    \/ \E t \in Threads : AccessorStep(t)
    \/ \E t \in Threads : \E o \in Accessors : InvokeConcurrent(t, o)

SpecConc == InitConc /\ [][NextConc]_vars

\* a constructed driver, one caller reading samples drawn from RawVals
NextScale ==
    \/ AccessorStep(1)
    \/ \E o \in Accessors : InvokeSerialized(1, o)

SpecScale == InitScale /\ [][NextScale]_vars

-----------------------------------------------------------------------------
(* Reading the log *)

IsBankSelect0(e) ==
    e.kind = "w" /\ e.reg = IIM42652_REG_BANK_SEL /\ e.val = <<0>>

IsDataRead(e) == e.kind = "r" /\ e.reg \in DataRegs

IsResetBitAccess(e) == e.kind \in {"r", "w"} /\ e.reg = IIM42652_DEVICE_CONFIG

IsPrefix(s, full) ==
    Len(s) <= Len(full) /\ \A i \in DOMAIN s : s[i] = full[i]

OfThread(t, e) == e.t = t

\* what the running (or last) method of thread t put on the bus
Seg(t) ==
    SelectSeq(SubSeq(log, start[t] + 1, Len(log)), LAMBDA e : OfThread(t, e))

\* kind, register and value of each entry, without thread, method and bank
Shape(s) == [i \in DOMAIN s |-> <<s[i].kind, s[i].reg, s[i].val>>]

ResetLabels ==
    {"reset_bank", "reset_sleep1", "reset_get", "reset_set", "reset_sleep2",
     "reset_poll", "reset_pollsleep"}

PollLoop == {"reset_poll", "reset_pollsleep"}

InitializeLabels == {"init_bank", "init_pwr", "init_sleep"}

ResetReturned(t) == pc[t] = "ctor_init" \/ (pc[t] = "idle" /\ op[t] = "reset")

InitializeReturned(t) == pc[t] = "idle" /\ op[t] \in {"initialize", "ctor"}

-----------------------------------------------------------------------------
(* C1 *)

\* C1: when WHO_AM_I holds anything but 0x6F, construction never gets past
\* the identity read: the bus carries at most the bank-select write of 0 and
\* then the identity read, neither DEVICE_CONFIG nor PWR_MGMT0 is accessed
\* or changed, and construction ends raising the device-not-found error
\* with exactly those two accesses made.
C1_MismatchFailsBeforeFurtherAccess ==
    whoami /= 111 =>
        /\ pc[1] \in {"ctor_bank", "ctor_id", "failed"}
        /\ IsPrefix(Shape(log), << <<"w", IIM42652_REG_BANK_SEL, <<0>> >>,
                                   <<"r", IIM42652_WHO_AM_I, <<whoami>> >> >>)
        /\ \A i \in DOMAIN log :
              log[i].reg \notin {IIM42652_DEVICE_CONFIG, IIM42652_PWR_MGMT0}
        /\ pwr = 0 /\ devcfg % 2 = 0
        /\ calls = 0
        /\ pc[1] = "failed" => (Len(log) = 2 /\ ret[1] = PyRaise("RuntimeError"))
        /\ Len(log) = 2 => pc[1] = "failed"

C1_Witness == whoami = 110 /\ pc[1] = "failed" /\ Len(log) = 2

-----------------------------------------------------------------------------
(* C2 *)

\* C2: in every call of reset() (from __init__ or from a caller) each read
\* or write of the reset bit comes after that call's write of 0 to the
\* bank-select register, and when reset() has returned the last thing it did
\* was a read of the reset bit that gave false, made after its write that
\* set the bit.
C2_ResetBankFirstAndBitObservedClear ==
    \A t \in Threads :
        (pc[t] \in ResetLabels \/ ResetReturned(t)) =>
            LET s == Seg(t) IN
            /\ \A i \in DOMAIN s :
                  /\ s[i].fn = "reset"
                  /\ IsResetBitAccess(s[i]) =>
                        \E j \in 1..(i - 1) : IsBankSelect0(s[j])
            /\ ResetReturned(t) =>
                  /\ Len(s) >= 2
                  /\ s[Len(s)].kind = "r"
                  /\ s[Len(s)].reg = IIM42652_DEVICE_CONFIG
                  /\ s[Len(s)].val[1] % 2 = 0
                  /\ s[Len(s)].bank = 0
                  /\ \E j \in 1..(Len(s) - 1) :
                        /\ s[j].kind = "w"
                        /\ s[j].reg = IIM42652_DEVICE_CONFIG
                        /\ s[j].val[1] % 2 = 1
                        /\ s[j].bank = 0

C2_Witness ==
    \E t \in Threads : pc[t] = "idle" /\ op[t] = "reset" /\ polls >= 1

-----------------------------------------------------------------------------
(* C3 *)

InitializeTrace ==
    << <<"w", IIM42652_REG_BANK_SEL, <<0>> >>,
       <<"w", IIM42652_PWR_MGMT0, <<15>> >>,
       <<"sleep", 0, <<45>> >> >>

\* C3: every call of initialize() writes 0 to the bank-select register, then
\* writes the one byte 0x0F to PWR_MGMT0 with bank 0 selected, then sleeps
\* 45 ms; it touches nothing else, and it has returned only when all three
\* are done, the register holding 0x0F until the next call on the bus.
C3_InitializeWritesPwrThenSettles ==
    \A t \in Threads :
        (pc[t] \in InitializeLabels \/ InitializeReturned(t)) =>
            /\ IsPrefix(Shape(Seg(t)), InitializeTrace)
            /\ \A i \in DOMAIN Seg(t) : Seg(t)[i].fn = "initialize"
            /\ Len(Seg(t)) >= 2 => Seg(t)[2].bank = 0
            /\ (Len(Seg(t)) >= 2 /\ log[Len(log)].t = t) => pwr = 15
            /\ InitializeReturned(t) <=> Len(Seg(t)) = 3

C3_Witness ==
    \E t \in Threads : pc[t] = "idle" /\ op[t] = "initialize" /\ Len(Seg(t)) = 3

-----------------------------------------------------------------------------
(* C4 *)

\* the order of the methods inside __init__
Rank(f) == CASE f = "ctor" -> 1 [] f = "reset" -> 2 [] f = "initialize" -> 3

\* C4: with WHO_AM_I = 0x6F, what __init__ puts on the bus (the whole log
\* until the first call on the constructed driver) is, in this
\* order, the bank-select write of 0, the identity read, the accesses of
\* reset() and then those of initialize(); when __init__ has returned, the
\* last access of reset() is a read of the reset bit that gave false, the
\* last write to PWR_MGMT0 wrote 0x0F, no write to DEVICE_CONFIG follows it,
\* and the device has bank 0 selected, the reset bit clear and PWR_MGMT0 at
\* 0x0F.
C4_ConstructionOrder ==
    (op[1] = "ctor" /\ calls = 0 /\ whoami = 111) =>
        /\ \A i \in DOMAIN log : \A j \in DOMAIN log :
              i < j => Rank(log[i].fn) <= Rank(log[j].fn)
        /\ Len(log) >= 1 => (log[1].fn = "ctor" /\ IsBankSelect0(log[1]))
        /\ Len(log) >= 2 =>
              /\ log[2].fn = "ctor"
              /\ log[2].kind = "r"
              /\ log[2].reg = IIM42652_WHO_AM_I
              /\ log[2].val = <<111>>
        /\ Len(log) >= 3 => log[3].fn = "reset"
        /\ \A i \in DOMAIN log :
              (i < Len(log) /\ log[i].fn = "reset" /\ log[i + 1].fn = "initialize")
                  => (log[i].kind = "r" /\ log[i].reg = IIM42652_DEVICE_CONFIG
                      /\ log[i].val[1] % 2 = 0)
        /\ pc[1] = "idle" =>
              /\ \E i \in DOMAIN log : log[i].fn = "reset"
              /\ \E i \in DOMAIN log :
                    /\ log[i].kind = "w"
                    /\ log[i].reg = IIM42652_PWR_MGMT0
                    /\ log[i].val = <<15>>
                    /\ log[i].fn = "initialize"
                    /\ \A j \in DOMAIN log : j > i =>
                          ~(log[j].kind = "w"
                            /\ log[j].reg \in {IIM42652_PWR_MGMT0,
                                               IIM42652_DEVICE_CONFIG})
              /\ bank = 0 /\ devcfg % 2 = 0 /\ pwr = 15

C4_Witness ==
    pc[1] = "idle" /\ op[1] = "ctor" /\ calls = 0 /\ polls >= 1 /\ Len(log) >= 12

-----------------------------------------------------------------------------
(* C5 *)

AccessorBankLabels == {"temp_bank", "accel_bank", "gyro_bank"}

AccessorReadLabels == {"temp_read", "accel_read", "gyro_read"}

\* C5: with the calls made one after another, every data-register read is
\* immediately preceded by a write of 0 to the bank-select register made by
\* the same call, and the accessor calls made so far have made exactly one
\* such write each (one fewer for a call that has not got to it yet), also
\* when bank 0 was selected already.
C5_UnconditionalBankSelect ==
    LET sel == {i \in DOMAIN log : log[i].fn \in Accessors /\ log[i].kind = "w"}
        rd  == {i \in DOMAIN log : IsDataRead(log[i])}
    IN  /\ \A i \in rd :
              /\ i > 1
              /\ IsBankSelect0(log[i - 1])
              /\ log[i - 1].t = log[i].t
              /\ log[i - 1].fn = log[i].fn
              /\ log[i].fn \in Accessors
        /\ \A i \in sel : IsBankSelect0(log[i])
        /\ Cardinality(sel) =
              nacc - Cardinality({t \in Threads : pc[t] \in AccessorBankLabels})
        /\ Cardinality(rd) =
              Cardinality(sel)
                - Cardinality({t \in Threads : pc[t] \in AccessorReadLabels})

\* two accessor calls done, both bank-select writes made with bank 0 selected
C5_Witness ==
    /\ nacc = 2
    /\ \A t \in Threads : pc[t] = "idle"
    /\ Cardinality({i \in DOMAIN log :
          log[i].fn \in Accessors /\ IsBankSelect0(log[i]) /\ log[i].bank = 0}) = 2

-----------------------------------------------------------------------------
(* C6 *)

\* C6: for the raw signed 16-bit value r in the temperature registers, the
\* temperature accessor returns the number r/132.48 + 25, that is
\* (100 r + 25 * 13248) / 13248.
C6_TemperatureScaled ==
    \A t \in Threads :
        (pc[t] = "idle" /\ op[t] = "temperature") =>
            ret[t] = Frac(100 * sample.temp + 25 * 13248, 13248)

-----------------------------------------------------------------------------
(* C7 *)

\* C7: for raw signed 16-bit values (rx, ry, rz) in the accelerometer
\* registers, the acceleration accessor returns a 3-tuple of numbers whose
\* i-th component times 2048 is the i-th raw value, in the order x, y, z;
\* raw x = 2048 gives x = 1.
C7_AccelerationScaled ==
    \A t \in Threads :
        (pc[t] = "idle" /\ op[t] = "acceleration") =>
            /\ ret[t].tag = "tuple"
            /\ Len(ret[t].items) = 3
            /\ \A i \in 1..3 :
                  /\ ret[t].items[i].tag = "float"
                  /\ ret[t].items[i].num * 2048
                        = sample.accel[i] * ret[t].items[i].den
            /\ sample.accel[1] = 2048 => ret[t].items[1] = PyFloat(1, 1)

C7_Witness ==
    /\ pc[1] = "idle" /\ op[1] = "acceleration"
    /\ sample.accel = <<2048, -1, 32767>>
    /\ ret[1].items[1] = PyFloat(1, 1)
    /\ ret[1].items[2] = PyFloat(-1, 2048)

-----------------------------------------------------------------------------
(* C8 *)

\* C8: for raw signed 16-bit values (rx, ry, rz) in the gyroscope registers,
\* the gyro accessor returns a 3-tuple of numbers whose i-th component times
\* 164 is ten times the i-th raw value, sign included, in the order x, y, z;
\* raw z = -164 gives z = -10.
C8_GyroScaled ==
    \A t \in Threads :
        (pc[t] = "idle" /\ op[t] = "gyro") =>
            /\ ret[t].tag = "tuple"
            /\ Len(ret[t].items) = 3
            /\ \A i \in 1..3 :
                  /\ ret[t].items[i].tag = "float"
                  /\ ret[t].items[i].num * 164
                        = sample.gyro[i] * 10 * ret[t].items[i].den
            /\ sample.gyro[3] = -164 => ret[t].items[3] = PyFloat(-10, 1)

C8_Witness ==
    /\ pc[1] = "idle" /\ op[1] = "gyro"
    /\ sample.gyro = <<32767, -32768, -164>>
    /\ ret[1].items[3] = PyFloat(-10, 1)

-----------------------------------------------------------------------------
(* C9 *)

\* a data read made right after a bank-select write of another thread's call,
\* while that call is still running: the two calls overlap on the bus
Raced(i) ==
    /\ i > 1
    /\ IsDataRead(log[i])
    /\ log[i - 1].kind = "w"
    /\ log[i - 1].reg = IIM42652_REG_BANK_SEL
    /\ log[i - 1].t /= log[i].t

\* C9, as amended: with two threads calling accessors and their bus
\* transactions interleaved in any way, every data-register read is made
\* with bank 0 selected, the bank every accessor needs, because every
\* bank-select write of the driver writes 0.
C9_InterleavedReadsStillInBank0 ==
    \A i \in DOMAIN log :
        /\ log[i].reg = IIM42652_REG_BANK_SEL => log[i].val = <<0>>
        /\ IsDataRead(log[i]) =>
              /\ log[i].bank = 0
              /\ log[i].val = DevReadBytes(0, log[i].reg, Len(log[i].val))

\* the racing interleaving happened: a call's data read directly follows the
\* other thread's bank-select write
C9_Witness == \E i \in DOMAIN log : Raced(i)

\* C9, as stated: where two accessor calls race on the bank selection (a
\* data read lands right after the other call's bank-select write), the read
\* is made with a bank selected that is not the one the accessor needs.
C9_RaceSelectsWrongBank ==
    \A i \in DOMAIN log : Raced(i) => log[i].bank /= 0

-----------------------------------------------------------------------------
(* C10 *)

\* C10: reset() has no timeout.  With a device that completes the reset, a
\* running reset() eventually returns.  With a device that never clears the
\* bit, a thread in the poll loop stays in it, never returning or raising;
\* the steps it takes change no device register and add to the log nothing
\* but reads of DEVICE_CONFIG and 5 ms sleeps; and it keeps polling and
\* sleeping for ever.
C10_ResetHasNoTimeout ==
    /\ \A t \in Threads :
          (responsive /\ pc[t] \in ResetLabels) ~> (pc[t] \notin ResetLabels)
    /\ [][\A t \in Threads :
            (~responsive /\ pc[t] \in PollLoop) =>
                /\ pc'[t] \in PollLoop
                /\ ret'[t] = ret[t]
                /\ devVars' = devVars
                /\ \/ log' = log
                   \/ /\ Len(log') = Len(log) + 1
                      /\ SubSeq(log', 1, Len(log)) = log
                      /\ LET e == log'[Len(log')]
                         IN \/ (e.kind = "r" /\ e.reg = IIM42652_DEVICE_CONFIG)
                            \/ (e.kind = "sleep" /\ e.val = <<5>>)]_vars
    /\ \A t \in Threads :
          [](~responsive /\ pc[t] \in PollLoop =>
                ([]<>(pc[t] = "reset_poll") /\ []<>(pc[t] = "reset_pollsleep")))

\* a device that never clears the bit, the driver still polling after more
\* iterations than the log records
C10_Witness ==
    ~responsive /\ pc[1] = "reset_pollsleep" /\ polls = MaxPolls /\ devcfg % 2 = 1

=============================================================================
